---- MODULE Spec2Model ----
(***************************************************************************)
(* The voice recorder of frontend/src/components/VoiceInput.tsx, in its    *)
(* two variants (the review variant, lines 1-303, and the auto-submit      *)
(* variant with pause support, lines 305-578), as one state machine.       *)
(*                                                                         *)
(* React state (state, error, recordingTime, audioUrl) is written through  *)
(* setState, which is a no-op once the component is unmounted; refs        *)
(* (mediaRecorderRef, audioChunksRef, timerRef, audioBlobRef) are plain    *)
(* mutable cells that callbacks keep writing after unmount.  The browser   *)
(* side (live media streams, MediaRecorder objects and their queued stop   *)
(* events, interval timers, object URLs, requests in flight) is state of   *)
(* the model too.  Playback (isPlaying, audioRef) is not modelled.         *)
(***************************************************************************)
EXTENDS Integers, Sequences, FiniteSets, TLC

\* ---------------------------------------------------------------- bounds
MaxStarts == 2      \* getUserMedia calls issued over the component's life
MaxSubmits == 2     \* clicks on "use this" (review variant)
MaxTime == 2        \* ticks counted by recordingTime
MaxChunks == 1      \* non-empty chunks one recorder delivers
MaxLogouts == 1     \* logout calls awaiting signOut() at one time

\* ------------------------------------------------------------- constants
\* content.en (the language prop is fixed to 'en')
permissionDenied == "Microphone access denied. Please enable it in your browser settings."
notSupported == "Voice recording is not supported in this browser."
recordingError == "Recording failed. Please try again."
TranscriptionFailed == "Transcription failed"
FailedToProcess == "Failed to process recording"

\* the ordered preference list of startRecording
mimeTypes == << "audio/webm;codecs=opus", "audio/webm", "audio/mp4", "audio/ogg;codecs=opus" >>

MimeSet == { mimeTypes[i] : i \in 1..Len(mimeTypes) }

\* a JSON field that the response body does not carry
Absent == "<absent>"

\* the values a response's normalized_text and error fields take in the model
Texts == { Absent, "", "hello" }
Errors == { Absent, "", "oops" }

\* JavaScript truthiness of an optional string field
Truthy(v) == v # Absent /\ v # ""

\* the browsers of the main specification, by what isTypeSupported accepts: one
\* that accepts no type of the list, one that accepts the second and the third
Browsers == { {}, {"audio/webm", "audio/mp4"} }

VARIABLES
    variant,           \* "review" | "auto": which of the two components this is
    mounted,           \* the component instance is mounted
    hasMediaDevices,   \* navigator.mediaDevices.getUserMedia exists
    supported,         \* the types MediaRecorder.isTypeSupported answers true for
    state,             \* useState<RecordingState>
    error,             \* useState<string>
    recordingTime,     \* useState(0)
    audioUrl,          \* useState<string|null>: 0 is null, else an object URL
    mediaRecorderRef,  \* 0 is null, else a recorder
    audioChunksRef,    \* the chunks pushed since the last start
    timerRef,          \* 0 is null, else a timer id (possibly already cleared)
    audioBlobRef,      \* the assembled blob, or NullBlob
    recorders,         \* the MediaRecorder objects created so far
    nCalls,            \* getUserMedia calls resolved so far
    streams,           \* media streams whose tracks are live
    timers,            \* active interval timers
    objectUrls,        \* object URLs created and not revoked
    pendingStarts,     \* startRecording calls awaiting getUserMedia
    inflight,          \* transcription requests awaiting their response
    callbacks,         \* the arguments onTranscription was invoked with
    nSubmits,          \* clicks on "use this" so far
    route,             \* the proxy route handler (POST) serving a request
    auth               \* the AuthProvider: its state cells and its pending calls

vars == << variant, mounted, hasMediaDevices, supported, state, error, recordingTime,
           audioUrl, mediaRecorderRef, audioChunksRef, timerRef, audioBlobRef,
           recorders, nCalls, streams, timers, objectUrls, pendingStarts, inflight,
           callbacks, nSubmits, route, auth >>

\* the state of the VoiceInput component, which the route handlers do not touch
componentVars == << variant, mounted, hasMediaDevices, supported, state, error,
                    recordingTime, audioUrl, mediaRecorderRef, audioChunksRef, timerRef,
                    audioBlobRef, recorders, nCalls, streams, timers, objectUrls,
                    pendingStarts, inflight, callbacks, nSubmits >>

\* a parsed JSON object, by the fields the routes read or write
NoData == [normalized_text |-> Absent, detail |-> Absent, error |-> Absent]

\* a body that is not JSON (an HTML error page, an empty body)
NotJSON == [json |-> FALSE, spaced |-> FALSE, data |-> NoData]

NoRequest == [form |-> "", audio |-> FALSE, language |-> Absent, authorization |-> Absent]

NoBackendRequest == [path |-> "", audio |-> FALSE, language |-> Absent, authorization |-> Absent]

NoBackendResponse == [threw |-> FALSE, status |-> 0, body |-> NotJSON]

NoResponse == [status |-> 0, body |-> NotJSON]

\* session is null
NoSession == "null"

\* user is null
NoUser == "null"

\* the AuthProvider after its first render and effect: user and session null,
\* isLoading true, getSession() pending, no signOut() pending, the
\* onAuthStateChange subscription active and no event delivered yet
AuthAtMount ==
    [mounted |-> TRUE, user |-> NoUser, session |-> NoSession, isLoading |-> TRUE,
     getSession |-> "pending", signOuts |-> 0, href |-> "", delivered |-> FALSE]

\* no request is being served
IdleRoute ==
    [pc |-> "idle", handler |-> "", request |-> NoRequest,
     backendRequest |-> NoBackendRequest, backendResponse |-> NoBackendResponse,
     response |-> NoResponse]

NullBlob == [present |-> FALSE, chunks |-> << >>, type |-> ""]

NoRecorder == [rstate |-> "none", mime |-> "", stopPending |-> FALSE, sent |-> 0]

\* the whole state as one record, so that handlers compose
Cur ==
    [variant |-> variant, mounted |-> mounted, hasMediaDevices |-> hasMediaDevices,
     supported |-> supported, state |-> state, error |-> error,
     recordingTime |-> recordingTime, audioUrl |-> audioUrl,
     mediaRecorderRef |-> mediaRecorderRef, audioChunksRef |-> audioChunksRef,
     timerRef |-> timerRef, audioBlobRef |-> audioBlobRef, recorders |-> recorders,
     nCalls |-> nCalls, streams |-> streams, timers |-> timers,
     objectUrls |-> objectUrls, pendingStarts |-> pendingStarts,
     inflight |-> inflight, callbacks |-> callbacks, nSubmits |-> nSubmits]

Commit(n) ==
    /\ variant' = n.variant
    /\ mounted' = n.mounted
    /\ hasMediaDevices' = n.hasMediaDevices
    /\ supported' = n.supported
    /\ state' = n.state
    /\ error' = n.error
    /\ recordingTime' = n.recordingTime
    /\ audioUrl' = n.audioUrl
    /\ mediaRecorderRef' = n.mediaRecorderRef
    /\ audioChunksRef' = n.audioChunksRef
    /\ timerRef' = n.timerRef
    /\ audioBlobRef' = n.audioBlobRef
    /\ recorders' = n.recorders
    /\ nCalls' = n.nCalls
    /\ streams' = n.streams
    /\ timers' = n.timers
    /\ objectUrls' = n.objectUrls
    /\ pendingStarts' = n.pendingStarts
    /\ inflight' = n.inflight
    /\ callbacks' = n.callbacks
    /\ nSubmits' = n.nSubmits
    /\ route' = route
    /\ auth' = auth

\* the state after the first render, in a browser that accepts the types sup
InitComponent(sup) ==
    /\ variant \in {"review", "auto"}
    /\ mounted = TRUE
    /\ hasMediaDevices \in BOOLEAN
    /\ supported \in sup
    /\ state = "idle"
    /\ error = ""
    /\ recordingTime = 0
    /\ audioUrl = 0
    /\ mediaRecorderRef = 0
    /\ audioChunksRef = << >>
    /\ timerRef = 0
    /\ audioBlobRef = NullBlob
    /\ recorders = [r \in 1..MaxStarts |-> NoRecorder]
    /\ nCalls = 0
    /\ streams = {}
    /\ timers = {}
    /\ objectUrls = {}
    /\ pendingStarts = 0
    /\ inflight = << >>
    /\ callbacks = << >>
    /\ nSubmits = 0

\* the state after the first render, with no route invocation in progress and
\* the AuthProvider just mounted
InitIn(sup) ==
    /\ InitComponent(sup)
    /\ route = IdleRoute
    /\ auth = AuthAtMount

Init == InitIn(Browsers)

\* ------------------------------------------------------ React state setters
\* a state setter of an unmounted component does nothing
setState(s, v) == IF s.mounted THEN [s EXCEPT !.state = v] ELSE s

setError(s, v) == IF s.mounted THEN [s EXCEPT !.error = v] ELSE s

setRecordingTime(s, v) == IF s.mounted THEN [s EXCEPT !.recordingTime = v] ELSE s

setAudioUrl(s, v) == IF s.mounted THEN [s EXCEPT !.audioUrl = v] ELSE s

\* ------------------------------------------------------------ browser side
\* clearInterval(id)
clearInterval(s, id) == [s EXCEPT !.timers = @ \ {id}]

\* setInterval: a fresh id, never one that timerRef still holds
FreshTimer(s) == CHOOSE t \in 1..(Cardinality(s.timers) + 2) : t \notin s.timers \cup {s.timerRef}

\* URL.revokeObjectURL(url)
revokeObjectURL(s, url) == [s EXCEPT !.objectUrls = @ \ {url}]

\* MediaRecorder.stop(): the recorder is inactive at once, its dataavailable and
\* stop events are queued
recorderStop(s, r) ==
    [s EXCEPT !.recorders[r].rstate = "inactive", !.recorders[r].stopPending = TRUE]

\* the recorder that mediaRecorderRef holds is not inactive
RefActive(s) ==
    /\ s.mediaRecorderRef # 0
    /\ s.recorders[s.mediaRecorderRef].rstate # "inactive"

\* ------------------------------------------------------------ the handlers
\* new Blob(chunks, {type})
Blob(chunks, type) == [present |-> TRUE, chunks |-> chunks, type |-> type]

\* the probe loop of startRecording: the first type of mimeTypes that
\* isTypeSupported accepts, '' when none is
RECURSIVE ProbeFrom(_, _)
ProbeFrom(sup, i) ==
    IF i > Len(mimeTypes) THEN ""
    ELSE IF mimeTypes[i] \in sup THEN mimeTypes[i]
    ELSE ProbeFrom(sup, i + 1)

\* the probe loop without its break: the last supported type wins
RECURSIVE ProbeLast(_, _, _)
ProbeLast(sup, i, found) ==
    IF i > Len(mimeTypes) THEN found
    ELSE ProbeLast(sup, i + 1, IF mimeTypes[i] \in sup THEN mimeTypes[i] ELSE found)

SelectMimeType_noBreak(sup) == ProbeLast(sup, 1, "")

\* the probe loop falling back to the head of the list when nothing is supported
SelectMimeType_headAsDefault(sup) ==
    IF ProbeFrom(sup, 1) = "" THEN mimeTypes[1] ELSE ProbeFrom(sup, 1)

SelectMimeType(sup) == ProbeFrom(sup, 1)

\* the cleanup function of the effect, run with the audioUrl of its render
cleanup(s, url) ==
    LET s1 == IF s.timerRef # 0 THEN clearInterval(s, s.timerRef) ELSE s
        s2 == IF url # 0 THEN revokeObjectURL(s1, url) ELSE s1
    IN  IF RefActive(s2) THEN recorderStop(s2, s2.mediaRecorderRef) ELSE s2

\* the commit after a handler: the review variant's effect depends on
\* [audioUrl], so its cleanup also runs whenever audioUrl has changed
rerender(old, new) ==
    IF new.mounted /\ new.variant = "review" /\ new.audioUrl # old.audioUrl
    THEN cleanup(new, old.audioUrl)
    ELSE new

\* submitRecording returning early on a blob of size 0 as well as on null
submitRecording_skipsEmpty(s) ==
    IF ~s.audioBlobRef.present \/ s.audioBlobRef.chunks = << >> THEN s
    ELSE LET s1 == setError(setState(s, "processing"), "")
         IN  [s1 EXCEPT !.inflight = Append(@, [blob |-> s.audioBlobRef, url |-> s.audioUrl])]

\* submitRecording, up to the fetch: url is the audioUrl of the render whose
\* resetRecording the continuation will call
submitRecording(s) ==
    IF ~s.audioBlobRef.present THEN s
    ELSE LET s1 == setError(setState(s, "processing"), "")
         IN  [s1 EXCEPT !.inflight = Append(@, [blob |-> s.audioBlobRef, url |-> s.audioUrl])]

\* resetRecording of the render whose audioUrl is url
resetRecording(s, url) ==
    LET s1 == IF url # 0 THEN revokeObjectURL(s, url) ELSE s
        s2 == setRecordingTime(setAudioUrl(s1, 0), 0)
    IN  setState([s2 EXCEPT !.audioBlobRef = NullBlob], "idle")

\* a failed submission returning to idle in both variants
FailureState_idle(s) == "idle"

\* where a failed submission returns to
FailureState(s) == IF s.variant = "review" THEN "review" ELSE "idle"

\* data.error ?? 'Transcription failed': only an absent field gives the generic text
FailureMessage_nullish(resp) == IF resp.error # Absent THEN resp.error ELSE TranscriptionFailed

\* data.error || 'Transcription failed'
FailureMessage(resp) == IF Truthy(resp.error) THEN resp.error ELSE TranscriptionFailed

\* the success branch without clearing audioBlobRef
onTranscribed_keepsBlob(s, req, text) ==
    LET s1 == [s EXCEPT !.callbacks = Append(@, text)]
    IN  setState(setRecordingTime(setAudioUrl(s1, 0), 0), "idle")

\* the success branch: the callback, then the reset
onTranscribed(s, req, text) ==
    LET s1 == [s EXCEPT !.callbacks = Append(@, text)]
    IN  IF s.variant = "review"
        THEN resetRecording(s1, req.url)
        ELSE setState([setRecordingTime(s1, 0) EXCEPT !.audioBlobRef = NullBlob], "idle")

\* the continuation without the catch block: a rejected fetch changes nothing
afterFetch_noCatch(s, req, resp) ==
    IF resp.threw
    THEN s
    ELSE IF resp.ok /\ Truthy(resp.normalized_text)
    THEN onTranscribed(s, req, resp.normalized_text)
    ELSE setState(setError(s, FailureMessage(resp)), FailureState(s))

\* the continuation with a catch block that sends the request again
afterFetch_retriesOnThrow(s, req, resp) ==
    IF resp.threw
    THEN LET s1 == setState(setError(s, FailedToProcess), FailureState(s))
         IN  [s1 EXCEPT !.inflight = Append(@, req)]
    ELSE IF resp.ok /\ Truthy(resp.normalized_text)
    THEN onTranscribed(s, req, resp.normalized_text)
    ELSE setState(setError(s, FailureMessage(resp)), FailureState(s))

\* the continuation of submitRecording once the fetch has settled:
\* resp.threw is a rejected fetch or an unparsable body
afterFetch(s, req, resp) ==
    IF resp.threw
    THEN setState(setError(s, FailedToProcess), FailureState(s))
    ELSE IF resp.ok /\ Truthy(resp.normalized_text)
    THEN onTranscribed(s, req, resp.normalized_text)
    ELSE setState(setError(s, FailureMessage(resp)), FailureState(s))

\* mediaRecorder.ondataavailable of recorder r, with a chunk of the given size
ondataavailable(s, r, size) ==
    IF size > 0
    THEN [s EXCEPT !.audioChunksRef = Append(@, << r, s.recorders[r].sent + 1 >>),
                   !.recorders[r].sent = @ + 1]
    ELSE s

\* mediaRecorder.onstop of recorder r (its stream is stream r)
onstop(s, r) ==
    LET mimeType == s.recorders[r].mime
        s1 == [s EXCEPT !.streams = @ \ {r},
                        !.audioBlobRef = Blob(s.audioChunksRef,
                                              IF mimeType # "" THEN mimeType ELSE "audio/webm")]
    IN  IF s.variant = "review"
        THEN setState(setAudioUrl([s1 EXCEPT !.objectUrls = @ \cup {r}], r), "review")
        ELSE submitRecording(s1)

\* mediaRecorder.onerror
onerror(s) == setState(setError(s, recordingError), "idle")

\* startRecording with setState('recording') moved before mediaRecorder.start()
startWithStream_stateBeforeStart(s, id, throwAt) ==
    LET mimeType == SelectMimeType(s.supported)
        s1 == setState([s EXCEPT !.recorders[id] = [rstate |-> "inactive", mime |-> mimeType,
                                                    stopPending |-> FALSE, sent |-> 0],
                                 !.mediaRecorderRef = id,
                                 !.audioChunksRef = << >>], "recording")
        s2 == setRecordingTime([s1 EXCEPT !.recorders[id].rstate = "recording"], 0)
        t == FreshTimer(s2)
    IN  IF throwAt = "construct" THEN setError(s, recordingError)
        ELSE IF throwAt = "start" THEN setError(s1, recordingError)
        ELSE [s2 EXCEPT !.timers = @ \cup {t}, !.timerRef = t]

\* the tail of startRecording once getUserMedia has resolved with stream id;
\* throwAt is where the recorder API throws, if it does
startWithStream(s, id, throwAt) ==
    LET mimeType == SelectMimeType(s.supported)
        s1 == [s EXCEPT !.recorders[id] = [rstate |-> "inactive", mime |-> mimeType,
                                           stopPending |-> FALSE, sent |-> 0],
                        !.mediaRecorderRef = id,
                        !.audioChunksRef = << >>]
        s2 == setRecordingTime(setState([s1 EXCEPT !.recorders[id].rstate = "recording"],
                                        "recording"), 0)
        t == FreshTimer(s2)
    IN  IF throwAt = "construct" THEN setError(s, recordingError)
        ELSE IF throwAt = "start" THEN setError(s1, recordingError)
        ELSE [s2 EXCEPT !.timers = @ \cup {t}, !.timerRef = t]

\* stopRecording (review variant) and finishRecording (auto-submit variant)
stopRecording(s) ==
    LET s1 == IF s.timerRef # 0
              THEN [clearInterval(s, s.timerRef) EXCEPT !.timerRef = 0]
              ELSE s
    IN  IF RefActive(s1) THEN recorderStop(s1, s1.mediaRecorderRef) ELSE s1

\* pauseRecording
pauseRecording(s) ==
    IF s.mediaRecorderRef # 0 /\ s.recorders[s.mediaRecorderRef].rstate = "recording"
    THEN LET s1 == setState([s EXCEPT !.recorders[s.mediaRecorderRef].rstate = "paused"],
                            "paused")
         IN  IF s1.timerRef # 0
             THEN [clearInterval(s1, s1.timerRef) EXCEPT !.timerRef = 0]
             ELSE s1
    ELSE s

\* resumeRecording
resumeRecording(s) ==
    IF s.mediaRecorderRef # 0 /\ s.recorders[s.mediaRecorderRef].rstate = "paused"
    THEN LET s1 == setState([s EXCEPT !.recorders[s.mediaRecorderRef].rstate = "recording"],
                            "recording")
             t == FreshTimer(s1)
         IN  [s1 EXCEPT !.timers = @ \cup {t}, !.timerRef = t]
    ELSE s

\* ------------------------------------------------------------- the actions
\* a click on the record button, rendered only in state idle: startRecording
\* up to its await
StartRecording ==
    /\ mounted /\ state = "idle"
    /\ hasMediaDevices => pendingStarts + nCalls < MaxStarts
    /\ LET s1 == setError(Cur, "")
       IN  IF ~hasMediaDevices
           THEN Commit(setError(s1, notSupported))
           ELSE Commit([s1 EXCEPT !.pendingStarts = @ + 1])

\* getUserMedia rejects: NotAllowedError, or any other error
GetUserMediaRejected(name) ==
    /\ pendingStarts > 0
    /\ LET s1 == [Cur EXCEPT !.pendingStarts = @ - 1]
       IN  Commit(setError(s1, IF name = "NotAllowedError"
                               THEN permissionDenied ELSE recordingError))

\* getUserMedia resolves with a new live stream
GetUserMediaResolved(throwAt) ==
    /\ pendingStarts > 0
    /\ LET id == nCalls + 1
           s1 == [Cur EXCEPT !.pendingStarts = @ - 1, !.nCalls = id,
                             !.streams = @ \cup {id}]
       IN  Commit(startWithStream(s1, id, throwAt))

\* the interval callback of timer t
Tick(t) ==
    /\ t \in timers
    /\ recordingTime < MaxTime
    /\ Commit(setRecordingTime(Cur, recordingTime + 1))

\* a timeslice dataavailable event of recorder r
DataAvailable(r, size) ==
    /\ recorders[r].rstate = "recording"
    /\ recorders[r].sent < MaxChunks
    /\ Commit(ondataavailable(Cur, r, size))

\* the events queued by stop(): a last dataavailable, then stop
StopEvent(r, size) ==
    /\ recorders[r].stopPending
    /\ size > 0 => recorders[r].sent < MaxChunks
    /\ LET s1 == [Cur EXCEPT !.recorders[r].stopPending = FALSE]
       IN  Commit(rerender(Cur, onstop(ondataavailable(s1, r, size), r)))

\* the recorder fails: it becomes inactive and fires error; withStop says whether
\* the browser follows with dataavailable and stop in the same task
RecorderError(r, withStop, size) ==
    /\ recorders[r].rstate \in {"recording", "paused"}
    /\ size > 0 => withStop /\ recorders[r].sent < MaxChunks
    /\ LET s1 == onerror([Cur EXCEPT !.recorders[r].rstate = "inactive"])
       IN  Commit(rerender(Cur, IF withStop
                                THEN onstop(ondataavailable(s1, r, size), r)
                                ELSE s1))

\* a click on stop (review, state recording) or finish (auto, recording or paused)
StopRecording ==
    /\ mounted
    /\ \/ variant = "review" /\ state = "recording"
       \/ variant = "auto" /\ state \in {"recording", "paused"}
    /\ Commit(stopRecording(Cur))

\* a click on pause (auto, state recording)
PauseRecording ==
    /\ mounted /\ variant = "auto" /\ state = "recording"
    /\ Commit(pauseRecording(Cur))

\* a click on resume (auto, state paused)
ResumeRecording ==
    /\ mounted /\ variant = "auto" /\ state = "paused"
    /\ Commit(resumeRecording(Cur))

\* a click on "record again" (review, state review)
ResetRecording ==
    /\ mounted /\ variant = "review" /\ state = "review"
    /\ Commit(rerender(Cur, resetRecording(Cur, audioUrl)))

\* a click on "use this" (review, state review)
SubmitRecording ==
    /\ mounted /\ variant = "review" /\ state = "review"
    /\ nSubmits < MaxSubmits
    /\ Commit(submitRecording([Cur EXCEPT !.nSubmits = @ + 1]))

\* the responses a fetch can settle with
Responses ==
    [threw : {FALSE}, ok : BOOLEAN, normalized_text : Texts, error : Errors]
    \cup { [threw |-> TRUE, ok |-> FALSE, normalized_text |-> Absent, error |-> Absent] }

\* request i settles with resp
FetchSettled(i, resp) ==
    /\ i \in 1..Len(inflight)
    /\ LET req == inflight[i]
           s1 == [Cur EXCEPT !.inflight = SubSeq(@, 1, i - 1) \o SubSeq(@, i + 1, Len(@))]
       IN  Commit(rerender(Cur, afterFetch(s1, req, resp)))

\* the component is unmounted: the effect cleanup runs
Unmount ==
    /\ mounted
    /\ Commit([cleanup(Cur, audioUrl) EXCEPT !.mounted = FALSE])

Next ==
    \/ StartRecording
    \/ \E name \in {"NotAllowedError", "NotFoundError"} : GetUserMediaRejected(name)
    \/ \E throwAt \in {"none", "construct", "start"} : GetUserMediaResolved(throwAt)
    \/ \E t \in 1..(MaxStarts + 1) : Tick(t)
    \/ \E r \in 1..MaxStarts, size \in {0, 1} : DataAvailable(r, size)
    \/ \E r \in 1..MaxStarts, size \in {0, 1} : StopEvent(r, size)
    \/ \E r \in 1..MaxStarts, withStop \in BOOLEAN, size \in {0, 1} : RecorderError(r, withStop, size)
    \/ StopRecording
    \/ PauseRecording
    \/ ResumeRecording
    \/ ResetRecording
    \/ SubmitRecording
    \/ \E i \in 1..MaxSubmits, resp \in Responses : FetchSettled(i, resp)
    \/ Unmount

Spec == Init /\ [][Next]_vars

\* the probe and what it decides, in every browser: a capture from the click to
\* the assembled blob
InitMime == InitIn(SUBSET MimeSet)

NextMime ==
    \/ StartRecording
    \/ \E name \in {"NotAllowedError", "NotFoundError"} : GetUserMediaRejected(name)
    \/ \E throwAt \in {"none", "construct", "start"} : GetUserMediaResolved(throwAt)
    \/ \E r \in 1..MaxStarts, size \in {0, 1} : DataAvailable(r, size)
    \/ \E r \in 1..MaxStarts, size \in {0, 1} : StopEvent(r, size)
    \/ StopRecording

SpecMime == InitMime /\ [][NextMime]_vars

\* ------------------------------------------------------- the proxy routes
NoAudioFile == "No audio file provided"

FailedVoice == "Failed to process voice recording"

FailedPublish == "Failed to publish website"

\* String(error) of a rejected fetch and of a body that response.json() rejects
FetchFailed == "TypeError: fetch failed"

UnexpectedToken == "SyntaxError: Unexpected token"

\* the status codes the backend answers with in the model
BackendStatuses == {200, 201, 400, 404, 500}

\* the JSON objects the backend answers with
BackendData ==
    [normalized_text : {Absent, "hello"}, detail : {Absent, "", "bad audio"}, error : {Absent}]

\* the bodies the backend answers with: a JSON text, compact or with white
\* space, or a text that is not JSON
BackendBodies ==
    { [json |-> TRUE, spaced |-> sp, data |-> d] : sp \in BOOLEAN, d \in BackendData }
    \cup { NotJSON }

\* what the fetch of the backend settles with: a response, or a rejection
BackendResponses ==
    [threw : {FALSE}, status : BackendStatuses, body : BackendBodies]
    \cup { [threw |-> TRUE, status |-> 0, body |-> NotJSON] }

\* the requests the voice route receives: multipart form data with or without
\* the audio and language fields, or a body request.formData() rejects
VoiceRequests ==
    [form : {"multipart"}, audio : BOOLEAN, language : {Absent, "", "hi"},
     authorization : {Absent}]
    \cup { [NoRequest EXCEPT !.form = "other"] }

\* the requests the publish route receives, by their Authorization header
PublishRequests ==
    [form : {""}, audio : {FALSE}, language : {Absent},
     authorization : {Absent, "", "Bearer t"}]

\* response.ok
responseOk(status) == status \in 200..299

\* response.json() on a body that parses
JSONparse(text) == text.data

\* JSON.stringify
JSONstringify(data) == [json |-> TRUE, spaced |-> FALSE, data |-> data]

\* NextResponse.json(data, { status })
NextResponse_json(data, status) == [status |-> status, body |-> JSONstringify(data)]

\* the language field handed on as it was read, without the default
voiceLanguage_noDefault(language) == language

\* formData.get('language') as string || 'auto'
voiceLanguage(language) == IF Truthy(language) THEN language ELSE "auto"

\* the voice route returning the backend's status on success as well
voiceRespond_forwardsStatus(resp) ==
    IF resp.threw \/ ~resp.body.json
    THEN NextResponse_json([NoData EXCEPT !.error = FailedVoice], 500)
    ELSE LET data == JSONparse(resp.body)
         IN  IF responseOk(resp.status)
             THEN NextResponse_json(data, resp.status)
             ELSE NextResponse_json(
                      [NoData EXCEPT !.error = IF Truthy(data.detail) THEN data.detail
                                               ELSE TranscriptionFailed],
                      resp.status)

\* the voice route once the fetch of the backend has settled
voiceRespond(resp) ==
    IF resp.threw \/ ~resp.body.json
    THEN NextResponse_json([NoData EXCEPT !.error = FailedVoice], 500)
    ELSE LET data == JSONparse(resp.body)
         IN  IF responseOk(resp.status)
             THEN NextResponse_json(data, 200)
             ELSE NextResponse_json(
                      [NoData EXCEPT !.error = IF Truthy(data.detail) THEN data.detail
                                               ELSE TranscriptionFailed],
                      resp.status)

\* the Authorization header forwarded whenever headers.get() is not null
forwardedAuthorization_ifNotNull(authHeader) == authHeader

\* if (authHeader) headers['Authorization'] = authHeader
forwardedAuthorization(authHeader) == IF Truthy(authHeader) THEN authHeader ELSE Absent

\* the publish route once the fetch of the backend has settled
publishRespond(resp) ==
    IF resp.threw
    THEN NextResponse_json([NoData EXCEPT !.error = FailedPublish, !.detail = FetchFailed], 500)
    ELSE IF ~resp.body.json
    THEN NextResponse_json([NoData EXCEPT !.error = FailedPublish, !.detail = UnexpectedToken],
                           500)
    ELSE NextResponse_json(JSONparse(resp.body), resp.status)

\* the voice route receives req and runs up to its fetch, or to an early return
VoicePOST(req) ==
    /\ route.pc = "idle"
    /\ route' =
         IF req.form # "multipart"
         THEN [IdleRoute EXCEPT !.pc = "responded", !.handler = "voice", !.request = req,
                  !.response = NextResponse_json([NoData EXCEPT !.error = FailedVoice], 500)]
         ELSE IF ~req.audio
         THEN [IdleRoute EXCEPT !.pc = "responded", !.handler = "voice", !.request = req,
                  !.response = NextResponse_json([NoData EXCEPT !.error = NoAudioFile], 400)]
         ELSE [IdleRoute EXCEPT !.pc = "fetching", !.handler = "voice", !.request = req,
                  !.backendRequest = [path |-> "/api/voice/transcribe", audio |-> TRUE,
                                      language |-> voiceLanguage(req.language),
                                      authorization |-> Absent]]
    /\ UNCHANGED << componentVars, auth >>

\* the voice route's fetch settles with resp
VoiceBackendSettled(resp) ==
    /\ route.pc = "fetching" /\ route.handler = "voice"
    /\ route' = [route EXCEPT !.pc = "responded", !.backendResponse = resp,
                              !.response = voiceRespond(resp)]
    /\ UNCHANGED << componentVars, auth >>

\* the publish route receives req and runs up to its fetch
PublishPOST(req) ==
    /\ route.pc = "idle"
    /\ route' = [IdleRoute EXCEPT !.pc = "fetching", !.handler = "publish", !.request = req,
                    !.backendRequest = [path |-> "/api/publish/id", audio |-> FALSE,
                                        language |-> Absent,
                                        authorization |->
                                            forwardedAuthorization(req.authorization)]]
    /\ UNCHANGED << componentVars, auth >>

\* the publish route's fetch settles with resp
PublishBackendSettled(resp) ==
    /\ route.pc = "fetching" /\ route.handler = "publish"
    /\ route' = [route EXCEPT !.pc = "responded", !.backendResponse = resp,
                              !.response = publishRespond(resp)]
    /\ UNCHANGED << componentVars, auth >>

\* the response has gone to the caller; the route serves the next request
ResponseSent ==
    /\ route.pc = "responded"
    /\ route' = IdleRoute
    /\ UNCHANGED << componentVars, auth >>

InitRoutes == InitIn({{}}) /\ variant = "review" /\ hasMediaDevices

NextRoutes ==
    \/ \E req \in VoiceRequests : VoicePOST(req)
    \/ \E resp \in BackendResponses : VoiceBackendSettled(resp)
    \/ \E req \in PublishRequests : PublishPOST(req)
    \/ \E resp \in BackendResponses : PublishBackendSettled(resp)
    \/ ResponseSent

SpecRoutes == InitRoutes /\ [][NextRoutes]_vars

\* ------------------------------------------------------ the auth provider
\* the sessions Supabase hands out in the model: s1 and its refreshed s1r belong
\* to one user, s2 to another
Sessions == {"s1", "s1r", "s2"}

\* session.user
sessionUserOf == [s \in Sessions |-> IF s = "s2" THEN "u2" ELSE "u1"]

\* session.access_token
access_token == [s \in Sessions |-> IF s = "s1" THEN "t1" ELSE IF s = "s1r" THEN "t1r" ELSE "t2"]

\* what getSession() resolves with or an auth event carries: a session or null
MaybeSessions == Sessions \cup {NoSession}

\* session?.user ?? null
sessionUser(s) == IF s = NoSession THEN NoUser ELSE sessionUserOf[s]

\* the provider's state setters: nothing happens once it is unmounted
setSession(a, s) == IF a.mounted THEN [a EXCEPT !.session = s] ELSE a

setUser(a, u) == IF a.mounted THEN [a EXCEPT !.user = u] ELSE a

setIsLoading(a, b) == IF a.mounted THEN [a EXCEPT !.isLoading = b] ELSE a

\* isAuthenticated: !!user
isAuthenticated(a) == a.user # NoUser

\* getAccessToken: session?.access_token ?? null
getAccessToken(a) == IF a.session = NoSession THEN "null" ELSE access_token[a.session]

\* getInitialSession without its finally block
getInitialSession_noFinally(a, threw, s) ==
    IF threw
    THEN [a EXCEPT !.getSession = "rejected"]
    ELSE [setIsLoading(setUser(setSession(a, s), sessionUser(s)), FALSE)
             EXCEPT !.getSession = "resolved"]

\* getInitialSession once getSession() has settled, by rejecting or with s
getInitialSession(a, threw, s) ==
    LET a1 == IF threw THEN a ELSE setUser(setSession(a, s), sessionUser(s))
    IN  [setIsLoading(a1, FALSE)
            EXCEPT !.getSession = IF threw THEN "rejected" ELSE "resolved"]

\* the onAuthStateChange callback, called with session s
onAuthStateChange(a, s) ==
    [setIsLoading(setUser(setSession(a, s), sessionUser(s)), FALSE)
        EXCEPT !.delivered = TRUE]

\* logout clearing the user only
logout_keepsSession(a, threw) ==
    IF threw
    THEN [a EXCEPT !.signOuts = @ - 1]
    ELSE [setUser(a, NoUser) EXCEPT !.signOuts = @ - 1, !.href = "/"]

\* logout once signOut() has settled: a rejection propagates to the caller
logout(a, threw) ==
    IF threw
    THEN [a EXCEPT !.signOuts = @ - 1]
    ELSE [setSession(setUser(a, NoUser), NoSession) EXCEPT !.signOuts = @ - 1, !.href = "/"]

\* getSession() settles and getInitialSession continues
GetSessionSettled(threw, s) ==
    /\ auth.getSession = "pending"
    /\ auth' = getInitialSession(auth, threw, s)
    /\ UNCHANGED << componentVars, route >>

\* Supabase delivers an auth event with session s to the subscribed callback
AuthStateChange(s) ==
    /\ auth.mounted
    /\ auth' = onAuthStateChange(auth, s)
    /\ UNCHANGED << componentVars, route >>

\* a consumer calls logout, which awaits signOut()
Logout ==
    /\ auth.mounted
    /\ auth.signOuts < MaxLogouts
    /\ auth' = [auth EXCEPT !.signOuts = @ + 1]
    /\ UNCHANGED << componentVars, route >>

\* signOut() settles and logout continues
SignOutSettled(threw) ==
    /\ auth.signOuts > 0
    /\ auth' = logout(auth, threw)
    /\ UNCHANGED << componentVars, route >>

\* the provider is unmounted: the effect cleanup unsubscribes
AuthUnmount ==
    /\ auth.mounted
    /\ auth' = [auth EXCEPT !.mounted = FALSE]
    /\ UNCHANGED << componentVars, route >>

InitAuth == InitIn({{}}) /\ variant = "review" /\ hasMediaDevices

NextAuth ==
    \/ \E threw \in BOOLEAN, s \in MaybeSessions : GetSessionSettled(threw, s)
    \/ \E s \in MaybeSessions : AuthStateChange(s)
    \/ Logout
    \/ \E threw \in BOOLEAN : SignOutSettled(threw)
    \/ AuthUnmount

SpecAuth == InitAuth /\ [][NextAuth]_vars

\* ---------------------------------------------------------------- claims
ThrowPoints == {"none", "construct", "start"}

\* the recorders that are capturing (recording or paused)
Capturing == { r \in 1..MaxStarts : recorders[r].rstate \in {"recording", "paused"} }

\* C1: in every reachable state at most one media stream is live and at most
\* one interval timer is active.
C1_AtMostOneStreamAndTimer ==
    /\ Cardinality(streams) <= 1
    /\ Cardinality(timers) <= 1

\* C2: there are never two recordings in progress at once, also when a second
\* start is requested while the first awaits the permission result.
C2_NoConcurrentRecordings == Cardinality(Capturing) <= 1

\* C3 as stated: with the capability present and the permission granted the
\* state becomes recording; without the capability or with the permission
\* denied it stays as it is, the matching error is shown and no timer starts.
C3_RecordingIffGranted ==
    [][ /\ (StartRecording /\ ~hasMediaDevices)
            => (state' = "idle" /\ error' = notSupported /\ timers' = timers)
        /\ GetUserMediaRejected("NotAllowedError")
            => (state' = state /\ timers' = timers /\ (mounted => error' = permissionDenied))
        /\ \A throwAt \in ThrowPoints :
            (mounted /\ GetUserMediaResolved(throwAt)) => state' = "recording"
      ]_vars

\* C3 amended: the state becomes recording exactly when the capability is
\* present, the permission is granted, the recorder is created and started
\* without an exception and the component is still mounted; in every other
\* outcome of a start the state is left as it is and no timer starts for a
\* missing capability, a denied permission or an exception.  idle turns into
\* recording by no other step.
C3_StartOutcome ==
    [][ /\ (StartRecording /\ ~hasMediaDevices)
            => (state' = "idle" /\ error' = notSupported /\ timers' = timers)
        /\ GetUserMediaRejected("NotAllowedError")
            => (state' = state /\ timers' = timers /\ (mounted => error' = permissionDenied))
        /\ \A throwAt \in ThrowPoints :
            GetUserMediaResolved(throwAt)
                => IF throwAt = "none"
                   THEN IF mounted THEN state' = "recording" ELSE state' = state
                   ELSE /\ state' = state
                        /\ timers' = timers
                        /\ mounted => error' = recordingError
        /\ (state = "idle" /\ state' = "recording")
            => (hasMediaDevices /\ GetUserMediaResolved("none"))
      ]_vars

\* C3 witness: a granted start whose recorder could not be created has left the
\* session idle with the recording error and its stream live.
C3_Witness ==
    /\ mounted /\ nCalls = 1 /\ recorders[1].rstate = "none"
    /\ state = "idle" /\ error = recordingError /\ streams = {1} /\ timers = {}

\* C4 as stated: when no type of the list is supported, no recorder is
\* started, the state never is recording and no timer exists.
C4_NoCaptureWhenNoneSupported ==
    supported = {} => (Capturing = {} /\ state # "recording" /\ timers = {})

\* C4 amended: when no type of the list is supported, a granted start creates
\* the recorder without a mimeType option (the browser's default), starts it,
\* moves to recording and starts the timer; the blob assembled from that
\* capture is typed audio/webm.
C4_DefaultTypeWhenNoneSupported ==
    [][ /\ (supported = {} /\ GetUserMediaResolved("none"))
            => /\ recorders'[nCalls'].rstate = "recording"
               /\ recorders'[nCalls'].mime = ""
               /\ state' = "recording"
               /\ timerRef' \in timers' /\ timerRef' \notin timers
        /\ (supported = {} /\ audioBlobRef'.present) => audioBlobRef'.type = "audio/webm"
      ]_vars

\* C4 witness: a capture runs in a browser that supports no type of the list.
C4_Witness ==
    /\ supported = {} /\ state = "recording" /\ timers # {}
    /\ recorders[1].rstate = "recording" /\ recorders[1].mime = ""

\* m is the supported type with the smallest index in mimeTypes
FirstSupportedIs(m) ==
    \E i \in 1..Len(mimeTypes) :
        /\ mimeTypes[i] = m
        /\ m \in supported
        /\ \A j \in 1..(i - 1) : mimeTypes[j] \notin supported

\* C5: for every non-empty set of supported types, the type of every recorder
\* and of the assembled blob is the supported type with the smallest index in
\* the preference list.
C5_FirstSupportedTypeChosen ==
    supported # {} =>
        /\ \A r \in 1..MaxStarts :
            recorders[r].rstate # "none" => FirstSupportedIs(recorders[r].mime)
        /\ audioBlobRef.present => FirstSupportedIs(audioBlobRef.type)

\* C5 witness: with only the third and fourth type supported, a capture was
\* recorded and assembled as audio/mp4.
C5_Witness ==
    /\ supported = {"audio/mp4", "audio/ogg;codecs=opus"}
    /\ recorders[1].mime = "audio/mp4"
    /\ audioBlobRef.present /\ audioBlobRef.type = "audio/mp4"

\* C6: a submission answered with HTTP success and a non-empty normalized_text T
\* invokes onTranscription exactly once, with T, clears the blob reference and
\* (the component being mounted) sets the state to idle and the time to 0.
C6_SuccessCallsBackOnceAndResets ==
    [][ \A i \in 1..MaxSubmits, resp \in Responses :
          (~resp.threw /\ resp.ok /\ Truthy(resp.normalized_text) /\ FetchSettled(i, resp))
            => /\ callbacks' = Append(callbacks, resp.normalized_text)
               /\ audioBlobRef' = NullBlob
               /\ mounted => (state' = "idle" /\ recordingTime' = 0)
      ]_vars

\* C6 witness: after a capture with elapsed time, the text has been handed over
\* once and the session is idle again, reset.
C6_Witness ==
    /\ mounted /\ callbacks = << "hello" >> /\ inflight = << >>
    /\ state = "idle" /\ recordingTime = 0 /\ ~audioBlobRef.present
    /\ nCalls = 1 /\ recorders[1].sent = 1

\* what C7 and C8 say of a failed submission besides the message: no callback,
\* the blob reference untouched, the state review (review variant) or idle
FailureLeaves ==
    /\ callbacks' = callbacks
    /\ audioBlobRef' = audioBlobRef
    /\ mounted => state' = (IF variant = "review" THEN "review" ELSE "idle")

C8_ErrorFieldIfPresent ==
    [][ \A i \in 1..MaxSubmits, resp \in Responses :
          (~resp.threw /\ resp.ok /\ ~Truthy(resp.normalized_text) /\ FetchSettled(i, resp))
            => /\ FailureLeaves
               /\ mounted => error' = (IF resp.error # Absent THEN resp.error
                                       ELSE TranscriptionFailed)
      ]_vars

\* C8 amended: such a response displays the error field if it is present and
\* not empty, else 'Transcription failed', without a callback, and leaves
\* processing for review (blob kept) or idle.
C8_ErrorFieldIfNonEmpty ==
    [][ \A i \in 1..MaxSubmits, resp \in Responses :
          (~resp.threw /\ resp.ok /\ ~Truthy(resp.normalized_text) /\ FetchSettled(i, resp))
            => /\ FailureLeaves
               /\ mounted => error' = (IF resp.error # Absent /\ resp.error # ""
                                       THEN resp.error ELSE TranscriptionFailed)
      ]_vars

\* C8 witness: the auto-submit variant is idle with the generic message, its
\* one submission answered and no text handed over.
C8_Witness ==
    /\ mounted /\ variant = "auto" /\ state = "idle" /\ error = TranscriptionFailed
    /\ audioBlobRef.present /\ callbacks = << >> /\ nCalls = 1 /\ inflight = << >>

\* C9: unmounting while recording or paused clears the interval timer, so that
\* no timer is left to tick, and stops the recorder, so that no recorder keeps
\* capturing its stream.
C9_UnmountStopsTimerAndRecorder ==
    [][ (Unmount /\ state \in {"recording", "paused"})
            => (timers' = {} /\ \A r \in 1..MaxStarts :
                                    recorders'[r].rstate \notin {"recording", "paused"})
      ]_vars

\* C10: after unmount no media stream and no timer is created.
C10_NothingCreatedAfterUnmount ==
    [][ ~mounted => (streams' \subseteq streams /\ timers' \subseteq timers) ]_vars

\* C11: on the error exits of a capture (a recorder error event, or an
\* exception in startRecording after the stream was acquired) the timer is
\* cleared and the stream's tracks are stopped: no live stream and no active
\* timer are left.
C11_ErrorExitsRelease ==
    [][ ( \/ \E r \in 1..MaxStarts, withStop \in BOOLEAN, size \in {0, 1} :
                RecorderError(r, withStop, size)
          \/ \E throwAt \in {"construct", "start"} : GetUserMediaResolved(throwAt) )
            => (streams' = {} /\ timers' = {} /\ (mounted => state' = "idle"))
      ]_vars

\* C12: in the pause-capable variant a pause and a resume leave the elapsed
\* seconds as they are, the counter does not change while the session stays
\* paused, and it returns to 0 only by a new start or a successful submission.
C12_PausePreservesElapsed ==
    [][ /\ (PauseRecording \/ ResumeRecording) => recordingTime' = recordingTime
        /\ (variant = "auto" /\ state = "paused" /\ state' = "paused")
            => recordingTime' = recordingTime
        /\ (variant = "auto" /\ recordingTime # 0 /\ recordingTime' = 0)
            => \/ GetUserMediaResolved("none")
               \/ \E i \in 1..MaxSubmits, resp \in Responses :
                    /\ ~resp.threw /\ resp.ok /\ Truthy(resp.normalized_text)
                    /\ FetchSettled(i, resp)
      ]_vars

\* the chunks recorder r has delivered, in delivery order
ChunksOf(r) == [k \in 1..recorders[r].sent |-> << r, k >>]

\* C13: the assembled audio is exactly the non-empty chunks that the stopped
\* recorder delivered since the start of its capture, in delivery order, and
\* that audio is what a submission sends.
C13_BlobIsTheCaptureInOrder ==
    /\ audioBlobRef.present
        => \E r \in 1..MaxStarts :
              recorders[r].rstate = "inactive" /\ audioBlobRef.chunks = ChunksOf(r)
    /\ \A i \in 1..Len(inflight) :
        \E r \in 1..MaxStarts :
              recorders[r].rstate = "inactive" /\ inflight[i].blob.chunks = ChunksOf(r)

\* the user can act: the record button (idle) or the review buttons (review)
\* are rendered, or the component is gone
Interactive == ~mounted \/ state \in {"idle", "review"}

\* C14: a recording stopped before any chunk was delivered assembles an empty
\* blob and still proceeds: the review variant reaches review, the auto-submit
\* variant sends the empty blob and is in processing, and whatever way that
\* request settles the session is interactive again; onTranscription is invoked only by a response
\* with a non-empty normalized_text.
C14_EmptyCaptureProceeds ==
    [][    /\ \A r \in 1..MaxStarts :
                (audioChunksRef = << >> /\ StopEvent(r, 0))
                  => /\ audioBlobRef' = Blob(<< >>, audioBlobRef'.type)
                     /\ callbacks' = callbacks
                     /\ mounted =>
                          IF variant = "review"
                          THEN state' = "review"
                          ELSE /\ state' = "processing"
                               /\ inflight' = Append(inflight, [blob |-> audioBlobRef', url |-> 0])
           /\ callbacks' # callbacks
                => \E i \in 1..MaxSubmits, resp \in Responses :
                      /\ ~resp.threw /\ resp.ok /\ Truthy(resp.normalized_text)
                      /\ FetchSettled(i, resp)
           /\ \A i \in 1..MaxSubmits, resp \in Responses :
                (FetchSettled(i, resp) /\ inflight[i].blob.chunks = << >>)
                  => Interactive'
         ]_vars

\* C14 witness: the auto-submit variant is idle again after the submission of
\* an empty capture failed, nothing having been handed over.
C14_Witness ==
    /\ mounted /\ variant = "auto" /\ state = "idle" /\ error # ""
    /\ nCalls = 1 /\ recorders[1].rstate = "inactive" /\ recorders[1].sent = 0
    /\ audioBlobRef.present /\ audioBlobRef.chunks = << >>
    /\ inflight = << >> /\ callbacks = << >> /\ streams = {}

\* C15: a response that arrives when the blob reference has been cleared is
\* ignored: the step that settles it leaves the callback list, the state and the
\* error as they were.
C15_LateResponseIgnored ==
    [][ \A i \in 1..MaxSubmits, resp \in Responses :
          (~audioBlobRef.present /\ FetchSettled(i, resp))
            => (callbacks' = callbacks /\ state' = state /\ error' = error)
      ]_vars

\* C16: processing is always left once the request completes: while the
\* mounted component is in processing a request is in flight, and whatever way
\* any request in flight settles, the component is then in idle or in review.
C16_ProcessingIsLeft ==
    /\ [](mounted /\ state = "processing" => inflight # << >>)
    /\ [][ \A i \in 1..MaxSubmits, resp \in Responses :
             FetchSettled(i, resp) => Interactive'
         ]_vars

\* C16 witness: the review variant is back in review, with the server's message
\* shown, after its request settled with an error response.
C16_Witness ==
    /\ mounted /\ variant = "review" /\ state = "review" /\ error = "oops"
    /\ nSubmits = 1 /\ inflight = << >> /\ audioBlobRef.present

\* C19: a request that throws is caught in the component: the error shown is
\* 'Failed to process recording', onTranscription is not called, the state is
\* review with the blob and its URL kept (review) or idle (auto-submit), and
\* the request is removed without another being sent; requests are sent only
\* by a click on submit or by a recorder's stop event.
C19_ThrownRequestIsCaught ==
    [][    /\ \A i \in 1..MaxSubmits, resp \in Responses :
                (resp.threw /\ FetchSettled(i, resp))
                  => /\ callbacks' = callbacks
                     /\ inflight' = SubSeq(inflight, 1, i - 1)
                                        \o SubSeq(inflight, i + 1, Len(inflight))
                     /\ audioBlobRef' = audioBlobRef
                     /\ mounted =>
                          /\ error' = FailedToProcess
                          /\ IF variant = "review"
                             THEN state' = "review" /\ audioUrl' = audioUrl
                             ELSE state' = "idle"
           /\ Len(inflight') > Len(inflight)
                => \/ SubmitRecording
                   \/ \E r \in 1..MaxStarts, size \in {0, 1} : StopEvent(r, size)
                   \/ \E r \in 1..MaxStarts, withStop \in BOOLEAN, size \in {0, 1} :
                         RecorderError(r, withStop, size)
      ]_vars

\* C19 witness: the review variant is in review with its recording kept and
\* 'Failed to process recording' shown, nothing in flight, nothing handed over.
C19_Witness ==
    /\ mounted /\ variant = "review" /\ state = "review" /\ error = FailedToProcess
    /\ audioBlobRef.present /\ audioUrl # 0
    /\ nSubmits = 1 /\ inflight = << >> /\ callbacks = << >>

\* C20: in the auto-submit variant a finish click halts the timer and stops the
\* capture without yet entering processing; processing is entered by the step
\* that releases the stream and assembles the blob the request carries; and
\* the session is never in processing while a microphone stream is live.
C20_ProcessingAfterRelease ==
    /\ []((variant = "auto" /\ state = "processing") => streams = {})
    /\ [][    /\ (variant = "auto" /\ StopRecording)
                   => /\ timerRef' = 0 /\ ~RefActive(Cur')
                      /\ state' = state /\ inflight' = inflight
              /\ (variant = "auto" /\ mounted /\ state # "processing" /\ state' = "processing")
                   => /\ audioBlobRef'.present
                      /\ inflight' = Append(inflight, [blob |-> audioBlobRef', url |-> 0])
                      /\ \E r \in streams : streams' = streams \ {r}
         ]_vars

\* the route has answered a request for which it called the backend
Answered(handler) ==
    /\ route.pc = "responded" /\ route.handler = handler
    /\ route.backendRequest # NoBackendRequest

\* two bodies with the same JSON content
SameBody(a, b) == a.json = b.json /\ a.data = b.data

C21_TimerOnlyWhileRecording ==
    /\ []((mounted /\ timers # {}) => state = "recording")
    /\ [][ \A t \in 1..(MaxStarts + 1) :
             (mounted /\ state # "recording" /\ Tick(t)) => recordingTime' = recordingTime
         ]_vars

\* C22: in the auto-submit variant, once the component is unmounted no step
\* sends a transcription request and no step invokes onTranscription.
C22_NothingSentAfterUnmount ==
    [][ (variant = "auto" /\ ~mounted)
          => (Len(inflight') <= Len(inflight) /\ callbacks' = callbacks)
      ]_vars

\* C23: once an auth event has been delivered, the completion of the initial
\* getSession call leaves the session and the user as they are.
C23_InitialSessionDoesNotOverwrite ==
    [][ \A threw \in BOOLEAN, s \in MaybeSessions :
          (auth.delivered /\ auth.mounted /\ GetSessionSettled(threw, s))
            => (auth'.session = auth.session /\ auth'.user = auth.user)
      ]_vars

\* C24: the exposed values are consistent: user is the held session's user, or
\* null when no session is held; isAuthenticated is true exactly when user is
\* not null; getAccessToken returns the held session's access token, or null
\* when no session is held.
C24_ExposedValuesConsistent ==
    /\ auth.user = (IF auth.session \in Sessions THEN sessionUserOf[auth.session] ELSE "null")
    /\ isAuthenticated(auth) <=> auth.user \in {"u1", "u2"}
    /\ getAccessToken(auth) =
         (IF auth.session \in Sessions THEN access_token[auth.session] ELSE "null")

\* C24 witness: an event delivered a session, the initial retrieval resolved,
\* and a logout has since completed: no session, no user, navigation to '/'.
C24_Witness ==
    /\ auth.mounted /\ auth.delivered /\ auth.getSession = "resolved"
    /\ auth.href = "/" /\ auth.signOuts = 0
    /\ auth.session = "null" /\ auth.user = "null"
    /\ ~isAuthenticated(auth) /\ getAccessToken(auth) = "null"

\* C25: isLoading is true from the mount until the initial retrieval settles
\* (resolved or rejected) or an auth event is delivered; the first of these
\* steps makes it false, no other step changes it, and it is never true again.
C25_LoadingEndsOnce ==
    /\ []((auth.getSession = "pending" /\ ~auth.delivered) => auth.isLoading)
    /\ []((auth.mounted /\ (auth.getSession # "pending" \/ auth.delivered)) => ~auth.isLoading)
    /\ [][    /\ ~auth.isLoading => ~auth'.isLoading
              /\ (auth.isLoading /\ ~auth'.isLoading)
                   => \/ \E threw \in BOOLEAN, s \in MaybeSessions : GetSessionSettled(threw, s)
                      \/ \E s \in MaybeSessions : AuthStateChange(s)
         ]_vars

\* C25 witness: the initial retrieval was rejected before any event was
\* delivered, and isLoading is false.
C25_Witness ==
    /\ auth.mounted /\ auth.getSession = "rejected" /\ ~auth.delivered
    /\ ~auth.isLoading /\ auth.session = "null"

\* C26: a form-data request to the voice route without an audio field is
\* answered 400 with { error: 'No audio file provided' } and no backend request
\* is made; a request with audio and no language field is sent on with
\* language 'auto'.
C26_NoAudioRejectedLanguageDefaulted ==
    (route.handler = "voice" /\ route.request.form = "multipart")
        => /\ ~route.request.audio
                => /\ route.pc = "responded"
                   /\ route.response.status = 400
                   /\ route.response.body = JSONstringify([NoData EXCEPT !.error = NoAudioFile])
                   /\ route.backendRequest = NoBackendRequest
           /\ (route.request.audio /\ route.request.language = Absent)
                => /\ route.backendRequest.path = "/api/voice/transcribe"
                   /\ route.backendRequest.language = "auto"

\* C26 witness: the voice route has answered 400 to a form without audio and
\* without language, having made no backend request.
C26_Witness ==
    /\ route.handler = "voice" /\ route.pc = "responded"
    /\ route.request.form = "multipart" /\ ~route.request.audio
    /\ route.request.language = Absent
    /\ route.response.status = 400
    /\ route.backendRequest = NoBackendRequest

====
